---- MODULE Spec2Model ----
(***************************************************************************)
(* Model of the polymetric step sequencer of src/src/App.tsx: the two     *)
(* Track components (steps / pulses / rotations state, the settings       *)
(* effect that regenerates the pattern, rebuilds the voice chain and      *)
(* publishes a settings snapshot) and the EuclideanSequencer conductor    *)
(* (transport start / stop / pause, the repeating tick callback with its  *)
(* master step counter and per-track dedup memory).                       *)
(*                                                                         *)
(* JavaScript arrays are 0-based, TLA+ sequences 1-based: pattern[k] of   *)
(* the source is pattern[k + 1] here.                                      *)
(***************************************************************************)
EXTENDS Integers, Sequences, FiniteSets

\* ------------------------------------------------------------------------
\* Program constants
\* ------------------------------------------------------------------------

\* <Track trackId={1}/> and <Track trackId={2}/>
NumTracks == 2
Tracks == 1..NumTracks

\* the master cycle: currentStepRef / 32 and (currentStepRef + 1) % 32
MasterCycle == 32

\* useState(16), useState(4), useState(0) of Track
InitSteps == 16
InitPulses == 4
InitRotations == 0

\* <input type="range" min="1" max="32"> of Steps
MinStepsSlider == 1
MaxStepsSlider == 32

\* lastPlayedStepRef.current[trackId] === undefined
None == -1

\* ------------------------------------------------------------------------
\* Bounds of the model
\* ------------------------------------------------------------------------

\* the Steps slider is moved to 1..MaxStepInput, to the initial 16 or to 32
MaxStepInput == 3
\* the Pulses slider is moved to 0..MaxPulseInput (and at most to steps)
MaxPulseInput == 2
\* the Rotations slider is moved to 0..MaxRotInput (and at most to steps - 1)
MaxRotInput == 1
\* the settings effects of all tracks re-run MaxEffectRuns times in total
MaxEffectRuns == 1
\* and MaxTrackRuns times when the transport is left alone
MaxTrackRuns == 2
\* a track drawn with any steps, pulses and rotations has its settings
\* effect re-run until it has built MaxPatternChains voice chains
MaxPatternChains == 4
\* a track played over whole master cycles is drawn with any steps and
\* pulses and a rotation of 0..MaxCycleRot (and at most steps - 1)
MaxCycleRot == 0
\* bpm / note duration are changed MaxTempoChanges times
MaxTempoChanges == 2

Min(a, b) == IF a < b THEN a ELSE b

\* ------------------------------------------------------------------------
\* IEEE-754 double arithmetic of generatePattern
\*
\* `increment = steps / pulses` and `index += increment` are computed in
\* doubles (53 significant bits, round to nearest, ties to even).  With
\* 2^e <= steps/pulses < 2^(e+1) the increment is N * 2^-f for f = 52 - e and
\* an integer N in [2^52, 2^53]; every later index is a multiple of 2^-f too.
\* The index after i additions is written (i * N + d) * 2^-f, d being the sum
\* of the rounding offsets so far, and N = (steps * 2^f + r) / pulses, r being
\* the (signed) rounding error of the division.  Only N mod 64, r and d are
\* needed to round each sum and to take its floor; all three are small.
\* ------------------------------------------------------------------------

\* floor(log2(num / den)) for 1 <= num / den < 64
Exp2(num, den) ==
  CHOOSE e \in 0..5 : num >= (2^e) * den /\ num < (2^(e + 1)) * den

\* 2^n mod m, by repeated squaring
RECURSIVE PowMod2(_, _)
PowMod2(n, m) ==
  IF n = 0 THEN 1 % m
  ELSE LET h == PowMod2(n \div 2, m)
       IN (h * h * (IF n % 2 = 1 THEN 2 ELSE 1)) % m

\* const increment = steps / pulses
\*   e: exponent, lo: N mod 64, r: N * pulses - steps * 2^f
\* x is steps * 2^f mod 64 * pulses: the low six bits of the truncated
\* quotient and the remainder of the division
Increment(nSteps, nPulses) ==
  LET e == Exp2(nSteps, nPulses)
      x == (nSteps * PowMod2(52 - e, 64 * nPulses)) % (64 * nPulses)
      q == x \div nPulses
      rem == x % nPulses
      up == 2 * rem > nPulses \/ (2 * rem = nPulses /\ q % 2 = 1)
  IN [e |-> e,
      lo |-> IF up THEN (q + 1) % 64 ELSE q,
      r |-> IF up THEN nPulses - rem ELSE 0 - rem]

\* index += increment, for the index (i * N + d) * 2^-f: the new offset d
AddIncrement(nSteps, nPulses, inc, i, d) ==
  LET c == (i + 1) * inc.r + nPulses * d
      \* the exact sum lies in [2^j, 2^(j+1))
      j == CHOOSE x \in inc.e..(inc.e + 6) :
             LET ge(y) == \/ (i + 1) * nSteps > (2^y) * nPulses
                          \/ (i + 1) * nSteps = (2^y) * nPulses /\ c >= 0
             IN ge(x) /\ ~ge(x + 1)
      k == j - inc.e
      slo == ((i + 1) * inc.lo + d) % (2^(k + 1))
      low == slo % (2^k)
      down == d - low
      up == d + (2^k) - low
  IN IF k = 0 THEN d
     ELSE IF 2 * low < 2^k THEN down
     ELSE IF 2 * low > 2^k THEN up
     ELSE IF slo >= 2^k THEN up ELSE down

\* Math.floor(index) for the index (i * N + d) * 2^-f
FloorIndex(nSteps, nPulses, inc, i, d) ==
  LET Q == (i * nSteps) \div nPulses
      R == (i * nSteps) % nPulses
      c == i * inc.r + nPulses * d
  IN IF R = 0 /\ c < 0 THEN Q - 1 ELSE Q

\* the for loop, were it to stop one iteration early (i < pulses - 1)
RECURSIVE MarkLoop_short(_, _, _, _, _)
MarkLoop_short(nSteps, nPulses, inc, i, d) ==
  IF i >= nPulses - 1 THEN {}
  ELSE {FloorIndex(nSteps, nPulses, inc, i, d) % nSteps}
         \cup MarkLoop_short(nSteps, nPulses, inc, i + 1,
                             AddIncrement(nSteps, nPulses, inc, i, d))

\* the for loop of generatePattern from iteration i on: the set of indices
\* it marks
RECURSIVE MarkLoop(_, _, _, _, _)
MarkLoop(nSteps, nPulses, inc, i, d) ==
  IF i >= nPulses THEN {}
  ELSE {FloorIndex(nSteps, nPulses, inc, i, d) % nSteps}
         \cup MarkLoop(nSteps, nPulses, inc, i + 1,
                       AddIncrement(nSteps, nPulses, inc, i, d))

\* Array.prototype.slice(a, b) on a sequence (0-based a, exclusive b)
Slice(seq, a, b) == SubSeq(seq, Min(a, Len(seq)) + 1, Min(b, Len(seq)))

\* generatePattern, were it to move the last `rotations` entries to the front
generatePattern_right(nSteps, nPulses, nRot) ==
  IF nPulses = 0 THEN SubSeq([k \in 1..nSteps |-> FALSE], 1, nSteps)
  ELSE LET marked == MarkLoop(nSteps, nPulses, Increment(nSteps, nPulses), 0, 0)
           pattern == [k \in 1..nSteps |-> (k - 1) \in marked]
       IN Slice(pattern, nSteps - nRot, nSteps)
            \o Slice(pattern, 0, nSteps - nRot)

\* generatePattern(steps, pulses, rotations), for 1 <= steps, pulses <= steps
\* (SubSeq takes the place of `new Array(steps).fill(false)`: a tuple)
generatePattern(nSteps, nPulses, nRot) ==
  IF nPulses = 0 THEN SubSeq([k \in 1..nSteps |-> FALSE], 1, nSteps)
  ELSE LET marked == MarkLoop(nSteps, nPulses, Increment(nSteps, nPulses), 0, 0)
           pattern == [k \in 1..nSteps |-> (k - 1) \in marked]
       IN Slice(pattern, nRot, nSteps) \o Slice(pattern, 0, nRot)

\* ------------------------------------------------------------------------
\* State
\* ------------------------------------------------------------------------

VARIABLES
  steps,              \* Track: const [steps, setSteps], per track
  pulses,             \* Track: const [pulses, setPulses]
  rotations,          \* Track: const [rotations, setRotations]
  chains,             \* Track: voice chains built and not disposed;
                      \*   instrumentRef / filterRef hold the latest one
  tracksRef,          \* tracksRef.current: trackId -> settings snapshot
  isPlaying,          \* const [isPlaying, setIsPlaying]
  isPaused,           \* const [isPaused, setIsPaused]
  transportState,     \* Tone.getTransport().state
  repeatEvents,       \* callbacks registered with transport.scheduleRepeat
  currentStepRef,     \* currentStepRef.current: the master step
  lastPlayedStepRef,  \* lastPlayedStepRef.current: trackId -> step | None
  fired,              \* tracks whose scheduleNote the latest step called
  \* history of the run, written by no code of the program
  runStep,            \* track step the previous tick computed, per track
  runFires,           \* notes scheduled while the track step stayed runStep
  lastActive,         \* track step of the latest tick that found the
                      \*   track's bit active, since the last Stop
  stoppedFrom,        \* master step the latest Stop found, until a tick
  pauseStep,          \* master step the latest Pause found, until a tick
  firstTick,          \* the latest step was the first tick after a Stop
                      \*   ("restart") or after a Pause ("resume")
  firedAt,            \* per track, the master steps among the latest 32
                      \*   ticks at which a note was scheduled for it
  ticksSeen,          \* ticks recorded in firedAt, up to 32
  tempoChanges        \* times the tick effect has re-run since the mount

progVars == <<steps, pulses, rotations, chains, tracksRef, isPlaying,
              isPaused, transportState, repeatEvents, currentStepRef,
              lastPlayedStepRef, fired>>
histVars == <<runStep, runFires, lastActive, stoppedFrom, pauseStep,
              firstTick>>
auxVars == <<firedAt, ticksSeen, tempoChanges>>
vars == <<progVars, histVars, auxVars>>

\* generatePattern(steps, Math.min(pulses, steps), rotations): the arguments
\* the Track effect passes for the state values s, p, r
generatorArgs(s, p, r) ==
  [steps |-> s, pulses |-> Min(p, s), rotations |-> r]

\* the settings object without the clamp of pulses
Settings_unclamped(s, p, r) ==
  LET a == generatorArgs(s, p, r)
  IN [steps |-> s,
      pulses |-> p,
      pattern |-> generatePattern(a.steps, a.pulses, a.rotations),
      patternLength |-> s]

\* the settings object the Track effect hands to onSettingsChange; the
\* continuous parameters and the scheduleNote closure are left out
Settings(s, p, r) ==
  LET a == generatorArgs(s, p, r)
  IN [steps |-> s,
      pulses |-> Min(p, s),
      pattern |-> generatePattern(a.steps, a.pulses, a.rotations),
      patternLength |-> s]

\* the track step, were the floor taken before the product:
\* Math.floor(currentStepRef.current / 32) * track.steps % track.steps
trackStep_floorFirst(masterStep, trackSteps) ==
  ((masterStep \div MasterCycle) * trackSteps) % trackSteps

\* the track step, were it the master step modulo the track's steps
trackStep_mod(masterStep, trackSteps) == masterStep % trackSteps

\* const trackStep = Math.floor(currentStepRef.current / 32 * track.steps)
\*                     % track.steps
\* (the division by 32 and the product are exact in doubles)
trackStep(masterStep, trackSteps) ==
  ((masterStep * trackSteps) \div MasterCycle) % trackSteps

\* the fire condition without the comparison with the last played step
shouldFire_everyTick(track, lastPlayed, step) ==
  track.pattern[step + 1]

\* the fire condition without the test of the pattern bit
shouldFire_ignoresPattern(track, lastPlayed, step) ==
  lastPlayed # step

\* track.pattern[trackStep] && lastPlayedStepRef.current[trackId] !== trackStep
shouldFire(track, lastPlayed, step) ==
  track.pattern[step + 1] /\ lastPlayed # step

Init ==
  /\ steps = [t \in Tracks |-> InitSteps]
  /\ pulses = [t \in Tracks |-> InitPulses]
  /\ rotations = [t \in Tracks |-> InitRotations]
  /\ chains = [t \in Tracks |-> 1]
  /\ tracksRef = [t \in Tracks |->
                    Settings(InitSteps, InitPulses, InitRotations)]
  /\ isPlaying = FALSE
  /\ isPaused = FALSE
  /\ transportState = "stopped"
  /\ repeatEvents = 1
  /\ currentStepRef = 0
  /\ lastPlayedStepRef = [t \in Tracks |-> None]
  /\ fired = {}
  /\ runStep = [t \in Tracks |-> None]
  /\ runFires = [t \in Tracks |-> 0]
  /\ lastActive = [t \in Tracks |-> None]
  /\ stoppedFrom = None
  /\ pauseStep = None
  /\ firstTick = "none"
  /\ firedAt = [t \in Tracks |-> {}]
  /\ ticksSeen = 0
  /\ tempoChanges = 0

\* ------------------------------------------------------------------------
\* Track: the settings effect and the inputs that re-run it
\* ------------------------------------------------------------------------

\* handleSettingsChange: tracksRef.current[trackId] = settings
handleSettingsChange(trackId, settings) ==
  tracksRef' = [tracksRef EXCEPT ![trackId] = settings]

\* the instrument / filter part of the effect: the chain the refs hold is
\* ramped, then a new instrument, filter and reverb are constructed and
\* chained and the refs overwritten; nothing is disposed
rebuildChain(n) == n + 1

\* the chains of tracks 1..n together
RECURSIVE ChainsBuilt(_)
ChainsBuilt(n) == IF n = 0 THEN 0 ELSE chains[n] + ChainsBuilt(n - 1)

\* the settings effects have re-run fewer than max times since the mount
EffectRunsLeft(max) == ChainsBuilt(NumTracks) < NumTracks + max

\* the state of Track t after a render with the values s, p, r
TrackRender(t, s, p, r) ==
  /\ steps' = [steps EXCEPT ![t] = s]
  /\ pulses' = [pulses EXCEPT ![t] = p]
  /\ rotations' = [rotations EXCEPT ![t] = r]
  /\ UNCHANGED <<isPlaying, isPaused, transportState, repeatEvents>>
  /\ UNCHANGED <<runStep, runFires, lastActive, stoppedFrom, pauseStep>>
  /\ firstTick' = "none"
  /\ fired' = {}

\* the effect, were it to forget the step the track last played
TrackEffect_forgets(t, s, p, r) ==
  /\ TrackRender(t, s, p, r)
  /\ chains' = [chains EXCEPT ![t] = rebuildChain(chains[t])]
  /\ handleSettingsChange(t, Settings(s, p, r))
  /\ lastPlayedStepRef' = [lastPlayedStepRef EXCEPT ![t] = None]
  /\ UNCHANGED currentStepRef

\* useEffect(..., [steps, pulses, rotations, gain, ...]) of Track t, run
\* after the render with the state values s, p, r
TrackEffect(t, s, p, r) ==
  /\ TrackRender(t, s, p, r)
  /\ chains' = [chains EXCEPT ![t] = rebuildChain(chains[t])]
  /\ handleSettingsChange(t, Settings(s, p, r))
  /\ UNCHANGED <<currentStepRef, lastPlayedStepRef>>

\* the values the Steps slider is moved to
StepInputs ==
  {v \in MinStepsSlider..MaxStepsSlider :
     v <= MaxStepInput \/ v = InitSteps \/ v = MaxStepsSlider}

\* Steps slider: onChange -> setSteps(parseInt(value))
SetSteps(t) ==
  \E v \in StepInputs :
    /\ v # steps[t]
    /\ TrackEffect(t, v, pulses[t], rotations[t])

\* Pulses slider (max = steps, value = min(pulses, steps)):
\* onChange -> setPulses(Math.min(parseInt(value), steps))
SetPulses(t) ==
  \E v \in 0..Min(MaxPulseInput, steps[t]) :
    /\ v # Min(pulses[t], steps[t])
    /\ Min(v, steps[t]) # pulses[t]
    /\ TrackEffect(t, steps[t], Min(v, steps[t]), rotations[t])

\* Rotations slider (max = steps - 1, value = rotations; the control shows a
\* value above max as max): onChange -> setRotations(parseInt(value))
SetRotations(t) ==
  \E v \in 0..Min(MaxRotInput, steps[t] - 1) :
    /\ v # Min(rotations[t], steps[t] - 1)
    /\ v # rotations[t]
    /\ TrackEffect(t, steps[t], pulses[t], v)

\* any of gain, frequency, pan, instrument, attack, decay, sustain, release,
\* filterFrequency, filterResonance changes: the effect runs again with the
\* same steps, pulses and rotations
SetParam(t) ==
  TrackEffect(t, steps[t], pulses[t], rotations[t])

\* ------------------------------------------------------------------------
\* EuclideanSequencer: transport controls
\* ------------------------------------------------------------------------

\* startSequencer, were it to rewind the master step
startSequencer_rewinds ==
  /\ transportState' = "started"
  /\ isPlaying' = TRUE
  /\ isPaused' = FALSE
  /\ currentStepRef' = 0
  /\ UNCHANGED <<steps, pulses, rotations, chains, tracksRef, repeatEvents,
                 lastPlayedStepRef>>
  /\ UNCHANGED <<runStep, runFires, lastActive, stoppedFrom, pauseStep>>
  /\ firstTick' = "none"
  /\ fired' = {}

\* if (transport.state !== 'started') transport.start();
\* setIsPlaying(true); setIsPaused(false)
startSequencer ==
  /\ transportState' = "started"
  /\ isPlaying' = TRUE
  /\ isPaused' = FALSE
  /\ UNCHANGED <<steps, pulses, rotations, chains, tracksRef, repeatEvents,
                 currentStepRef, lastPlayedStepRef>>
  /\ UNCHANGED <<runStep, runFires, lastActive, stoppedFrom, pauseStep>>
  /\ firstTick' = "none"
  /\ fired' = {}

\* stopSequencer, were it to keep the dedup memory
keepLastPlayed == lastPlayedStepRef

\* lastPlayedStepRef.current = {}
resetLastPlayed == [t \in Tracks |-> None]

\* stopSequencer, were it to keep the master step
keepMasterStep == currentStepRef

\* currentStepRef.current = 0
resetMasterStep == 0

\* the Stop button is disabled={!isPlaying && !isPaused}
stopSequencer ==
  /\ isPlaying \/ isPaused
  /\ transportState' = "stopped"
  /\ isPlaying' = FALSE
  /\ isPaused' = FALSE
  /\ currentStepRef' = resetMasterStep
  /\ lastPlayedStepRef' = resetLastPlayed
  /\ fired' = {}
  /\ runStep' = [t \in Tracks |-> None]
  /\ runFires' = [t \in Tracks |-> 0]
  /\ lastActive' = [t \in Tracks |-> None]
  /\ stoppedFrom' = currentStepRef
  /\ pauseStep' = None
  /\ firstTick' = "none"
  /\ UNCHANGED <<steps, pulses, rotations, chains, tracksRef, repeatEvents>>

\* transport.pause(), were it left out
transportAfterPause_running == transportState

\* transport.pause()
transportAfterPause == "paused"

\* the Pause button, were it never disabled
pauseEnabled_always == TRUE

\* the Pause button is disabled={!isPlaying}
pauseEnabled == isPlaying

\* pauseSequencer, reached through the Pause button
pauseSequencer ==
  /\ pauseEnabled
  /\ transportState' = transportAfterPause
  /\ isPlaying' = FALSE
  /\ isPaused' = TRUE
  /\ pauseStep' = currentStepRef
  /\ UNCHANGED <<steps, pulses, rotations, chains, tracksRef, repeatEvents,
                 currentStepRef, lastPlayedStepRef>>
  /\ UNCHANGED <<runStep, runFires, lastActive, stoppedFrom>>
  /\ firstTick' = "none"
  /\ fired' = {}

\* the cleanup of the tick effect, were it to leave the event registered
clearRepeat_leak(n) == n

\* return () => { transport.clear(repeatingEvent) }
clearRepeat(n) == n - 1

\* const repeatingEvent = transport.scheduleRepeat(callback, '16n')
scheduleRepeat(n) == n + 1

\* handleBpmChange / the Note Duration slider: bpm or noteDuration changes,
\* the tick effect's cleanup clears the repeating event and the effect
\* schedules a new one
TickEffect ==
  /\ repeatEvents' = scheduleRepeat(clearRepeat(repeatEvents))
  /\ UNCHANGED <<steps, pulses, rotations, chains, tracksRef, isPlaying,
                 isPaused, transportState, currentStepRef, lastPlayedStepRef>>
  /\ UNCHANGED <<runStep, runFires, lastActive, stoppedFrom, pauseStep>>
  /\ firstTick' = "none"
  /\ fired' = {}

\* ------------------------------------------------------------------------
\* EuclideanSequencer: the scheduleRepeat callback
\* ------------------------------------------------------------------------

\* the track step of track t at the current master step
StepOf(t) == trackStep(currentStepRef, tracksRef[t].steps)

\* the tracks the forEach schedules a note for
FiringTracks ==
  {t \in Tracks : shouldFire(tracksRef[t], lastPlayedStepRef[t], StepOf(t))}

\* the increment of the master step without the wrap
nextMasterStep_nowrap(m) == m + 1

\* currentStepRef.current = (currentStepRef.current + 1) % 32
nextMasterStep(m) == (m + 1) % MasterCycle

\* one invocation of the callback by the started transport
Tick ==
  /\ transportState = "started"
  /\ repeatEvents >= 1
  /\ fired' = FiringTracks
  /\ lastPlayedStepRef' =
       [t \in Tracks |-> IF t \in FiringTracks THEN StepOf(t)
                         ELSE lastPlayedStepRef[t]]
  /\ currentStepRef' = nextMasterStep(currentStepRef)
  /\ runStep' = [t \in Tracks |-> StepOf(t)]
  /\ runFires' = [t \in Tracks |->
                    (IF runStep[t] = StepOf(t) THEN runFires[t] ELSE 0)
                    + (IF t \in FiringTracks THEN 1 ELSE 0)]
  /\ lastActive' = [t \in Tracks |->
                      IF tracksRef[t].pattern[StepOf(t) + 1] THEN StepOf(t)
                      ELSE lastActive[t]]
  /\ stoppedFrom' = None
  /\ pauseStep' = None
  /\ firstTick' = IF stoppedFrom # None THEN "restart"
                  ELSE IF pauseStep # None THEN "resume" ELSE "none"
  /\ UNCHANGED <<steps, pulses, rotations, chains, tracksRef, isPlaying,
                 isPaused, transportState, repeatEvents>>

\* the ticks and tempo changes are recorded (firedAt, ticksSeen,
\* tempoChanges) in CycleSpec and TempoSpec only
Next ==
  \/ \E t \in Tracks :
       EffectRunsLeft(MaxEffectRuns) /\ SetSteps(t) /\ UNCHANGED auxVars
  \/ \E t \in Tracks :
       EffectRunsLeft(MaxEffectRuns) /\ SetPulses(t) /\ UNCHANGED auxVars
  \/ \E t \in Tracks :
       EffectRunsLeft(MaxEffectRuns) /\ SetRotations(t) /\ UNCHANGED auxVars
  \/ \E t \in Tracks :
       EffectRunsLeft(MaxEffectRuns) /\ SetParam(t) /\ UNCHANGED auxVars
  \/ startSequencer /\ UNCHANGED auxVars
  \/ stopSequencer /\ UNCHANGED auxVars
  \/ pauseSequencer /\ UNCHANGED auxVars
  \/ TickEffect /\ UNCHANGED auxVars
  \/ Tick /\ UNCHANGED auxVars

Spec == Init /\ [][Next]_vars

\* the Track components alone: the transport controls are never used
NextTrack ==
  \/ \E t \in Tracks :
       EffectRunsLeft(MaxTrackRuns) /\ SetSteps(t) /\ UNCHANGED auxVars
  \/ \E t \in Tracks :
       EffectRunsLeft(MaxTrackRuns) /\ SetPulses(t) /\ UNCHANGED auxVars
  \/ \E t \in Tracks :
       EffectRunsLeft(MaxTrackRuns) /\ SetRotations(t) /\ UNCHANGED auxVars
  \/ \E t \in Tracks :
       EffectRunsLeft(MaxTrackRuns) /\ SetParam(t) /\ UNCHANGED auxVars

TrackSpec == Init /\ [][NextTrack]_vars

\* ------------------------------------------------------------------------
\* Specifications over every track configuration
\* ------------------------------------------------------------------------

\* the settings-effect runs that take a mounted Track to steps = s,
\* pulses = p <= s, rotations = r < s: Steps is moved first (the Pulses
\* control then shows min(4, s)), Pulses if p is not the value shown, then
\* Rotations
RunsTo(s, p, r) ==
  (IF s # InitSteps THEN 1 ELSE 0)
  + (IF p # Min(InitPulses, s) THEN 1 ELSE 0)
  + (IF r # InitRotations THEN 1 ELSE 0)

\* the program before the first Start, every Track moved to s, p, r
Configured(s, p, r) ==
  /\ steps = [t \in Tracks |-> s]
  /\ pulses = [t \in Tracks |->
                 IF p = Min(InitPulses, s) THEN InitPulses ELSE p]
  /\ rotations = [t \in Tracks |-> r]
  /\ chains = [t \in Tracks |-> 1 + RunsTo(s, p, r)]
  /\ tracksRef = [t \in Tracks |-> Settings(s, p, r)]
  /\ isPlaying = FALSE
  /\ isPaused = FALSE
  /\ transportState = "stopped"
  /\ repeatEvents = 1
  /\ currentStepRef = 0
  /\ lastPlayedStepRef = [t \in Tracks |-> None]
  /\ fired = {}
  /\ runStep = [t \in Tracks |-> None]
  /\ runFires = [t \in Tracks |-> 0]
  /\ lastActive = [t \in Tracks |-> None]
  /\ stoppedFrom = None
  /\ pauseStep = None
  /\ firstTick = "none"
  /\ firedAt = [t \in Tracks |-> {}]
  /\ ticksSeen = 0
  /\ tempoChanges = 0

\* generatePattern on its whole domain: 1 <= steps <= 32, 0 <= pulses <=
\* steps, 0 <= rotations < steps
PatternInit ==
  \E s \in MinStepsSlider..MaxStepsSlider :
    \E p \in 0..s : \E r \in 0..(s - 1) : Configured(s, p, r)

\* the settings effect runs again and regenerates the pattern
NextPattern ==
  \E t \in Tracks :
    chains[t] < MaxPatternChains /\ SetParam(t) /\ UNCHANGED auxVars

PatternSpec == PatternInit /\ [][NextPattern]_vars

\* every steps and pulses, played without a Pause, a Stop or a
\* reconfiguration
CycleInit ==
  \E s \in MinStepsSlider..MaxStepsSlider :
    \E p \in 0..s :
      \E r \in 0..Min(MaxCycleRot, s - 1) : Configured(s, p, r)

\* the tick is recorded: the entry of the master step it evaluated is
\* replaced, so firedAt covers the latest 32 ticks
WindowTick ==
  /\ firedAt' = [t \in Tracks |->
                   (firedAt[t] \ {currentStepRef})
                   \cup (IF t \in FiringTracks THEN {currentStepRef}
                         ELSE {})]
  /\ ticksSeen' = Min(ticksSeen + 1, MasterCycle)
  /\ UNCHANGED tempoChanges

NextCycle ==
  \/ startSequencer /\ UNCHANGED auxVars
  \/ Tick /\ WindowTick

CycleSpec == CycleInit /\ [][NextCycle]_vars

\* the tick effect re-runs and the re-run is counted
TempoChange ==
  /\ tempoChanges < MaxTempoChanges
  /\ TickEffect
  /\ tempoChanges' = tempoChanges + 1
  /\ UNCHANGED <<firedAt, ticksSeen>>

\* the conductor alone: the Tracks keep their mounted configuration
NextTempo ==
  \/ startSequencer /\ UNCHANGED auxVars
  \/ stopSequencer /\ UNCHANGED auxVars
  \/ pauseSequencer /\ UNCHANGED auxVars
  \/ Tick /\ UNCHANGED auxVars
  \/ TempoChange

TempoSpec == Init /\ [][NextTempo]_vars

\* ------------------------------------------------------------------------
\* Properties
\* ------------------------------------------------------------------------

Stopped == ~isPlaying /\ ~isPaused

ActiveCount(pattern) == Cardinality({k \in 1..Len(pattern) : pattern[k]})

\* C1 - Dedup: over a run of consecutive ticks (no Stop in between) that all
\* map to the same track step of a track, at most one note is scheduled for
\* that track.
Dedup == \A t \in Tracks : runFires[t] <= 1

\* two ticks in a row stood on the same active step of a track and one note
\* was scheduled for it
DedupWitness ==
  \E t \in Tracks :
    /\ currentStepRef >= 2
    /\ runStep[t] = trackStep(currentStepRef - 1, tracksRef[t].steps)
    /\ runStep[t] = trackStep(currentStepRef - 2, tracksRef[t].steps)
    /\ tracksRef[t].pattern[runStep[t] + 1]
    /\ lastPlayedStepRef[t] = runStep[t]
    /\ runFires[t] = 1
    /\ t \notin fired

\* C2 - Re-entry fires: a tick that finds a track back on the active step it
\* stood on before, after ticks on other steps (here: all of them inactive),
\* schedules a note for the track.
ReentryFires ==
  [][Tick => \A t \in Tracks :
               (/\ tracksRef[t].pattern[StepOf(t) + 1]
                /\ lastActive[t] = StepOf(t)
                /\ runStep[t] # None
                /\ runStep[t] # StepOf(t))
               => t \in fired']_vars

\* C3 - Stop leaves the conductor Stopped with the master step 0 and every
\* track's last played step cleared: whenever the conductor is Stopped, the
\* transport is stopped, the master step is 0 and no track has a last played
\* step.
StopResets ==
  Stopped => /\ transportState = "stopped"
             /\ currentStepRef = 0
             /\ \A t \in Tracks : lastPlayedStepRef[t] = None

\* Stop has acted at a master step above 0
StopResetsWitness ==
  /\ Stopped
  /\ stoppedFrom # None
  /\ stoppedFrom > 0

\* C4 - Clean restart: the first tick after a Stop evaluates master step 0
\* and schedules a note for every track whose pattern[0] is active.
CleanRestart ==
  [][(Tick /\ stoppedFrom # None)
       => /\ currentStepRef = 0
          /\ \A t \in Tracks : StepOf(t) = 0
          /\ \A t \in Tracks : tracksRef[t].pattern[1] => t \in fired']_vars

\* the first tick after a Stop that interrupted a run past master step 0 has
\* scheduled a note for both tracks
CleanRestartWitness ==
  /\ firstTick = "restart"
  /\ currentStepRef = 1
  /\ fired = Tracks

\* C5 - Pause and the resuming Start change neither the master step nor any
\* track's last played step; the first tick after the resume evaluates the
\* master step the Pause found, and schedules no note for a track still
\* held on the step it has already played.
PauseResumeKeeps ==
  [][/\ (pauseSequencer \/ (startSequencer /\ isPaused))
          => /\ currentStepRef' = currentStepRef
             /\ lastPlayedStepRef' = lastPlayedStepRef
     /\ (pauseStep' # None) => currentStepRef' = pauseStep'
     /\ (Tick /\ pauseStep # None)
          => /\ currentStepRef = pauseStep
             /\ \A t \in Tracks :
                  (runStep[t] = StepOf(t) /\ runFires[t] >= 1)
                  => t \notin fired']_vars

\* the first tick after a resume found a track held on the step it had played
\* before the Pause, and scheduled nothing for it
PauseResumeWitness ==
  /\ firstTick = "resume"
  /\ currentStepRef >= 2
  /\ \E t \in Tracks :
       /\ runFires[t] = 1
       /\ lastPlayedStepRef[t] = runStep[t]
       /\ tracksRef[t].pattern[runStep[t] + 1]
       /\ t \notin fired

\* C6 - While the conductor is Stopped or Paused the tick routine does not
\* run: no note is scheduled and the master step does not advance (a Stop
\* may reset it to 0).
NoTickWhileHalted ==
  [][~isPlaying => /\ ~Tick
                   /\ transportState # "started"
                   /\ fired' = {}
                   /\ currentStepRef' \in {currentStepRef, 0}]_vars

\* the conductor is Paused in the middle of a cycle
NoTickWhileHaltedWitness ==
  /\ isPaused
  /\ ~isPlaying
  /\ pauseStep # None
  /\ pauseStep > 0
  /\ currentStepRef = pauseStep

\* C7 - A reconfiguration of a track (its settings effect re-runs) leaves the
\* master step and every track's last played step unchanged; and a tick
\* schedules a note for a track only if the track step differs from the step
\* the track last played.
ReconfigureKeeps ==
  [][/\ (tracksRef' # tracksRef \/ chains' # chains)
          => /\ currentStepRef' = currentStepRef
             /\ lastPlayedStepRef' = lastPlayedStepRef
     /\ Tick => \A t \in fired' : StepOf(t) # lastPlayedStepRef[t]]_vars

\* a track still remembers a played step that its reconfigured pattern no
\* longer has
ReconfigureKeepsWitness ==
  \E t \in Tracks :
    /\ chains[t] > 1
    /\ lastPlayedStepRef[t] # None
    /\ lastPlayedStepRef[t] >= tracksRef[t].steps

\* C8 - Snapshot consistency: every settings snapshot the tick routine can
\* read has a pattern of length steps, pulses <= steps and min(pulses, steps)
\* active entries, and is the snapshot of the track's current state.
SnapshotConsistent ==
  \A t \in Tracks :
    /\ Len(tracksRef[t].pattern) = tracksRef[t].steps
    /\ tracksRef[t].pulses <= tracksRef[t].steps
    /\ ActiveCount(tracksRef[t].pattern)
         = Min(tracksRef[t].pulses, tracksRef[t].steps)
    /\ tracksRef[t].steps = steps[t]
    /\ tracksRef[t].pulses = Min(pulses[t], steps[t])

\* a track whose steps were lowered below its pulses, read by a tick
SnapshotWitness ==
  \E t \in Tracks :
    /\ chains[t] > 1
    /\ pulses[t] > steps[t]
    /\ currentStepRef > 0
    /\ runStep[t] = trackStep(currentStepRef - 1, tracksRef[t].steps)

\* C9 - Clamping: the arguments the settings effect passes to generatePattern
\* satisfy 1 <= steps <= 32, 0 <= pulses <= steps, 0 <= rotation < steps.
ClampedArguments ==
  \A t \in Tracks :
    LET a == generatorArgs(steps[t], pulses[t], rotations[t])
    IN /\ MinStepsSlider <= a.steps /\ a.steps <= MaxStepsSlider
       /\ 0 <= a.pulses /\ a.pulses <= a.steps
       /\ 0 <= a.rotations /\ a.rotations < a.steps

\* C10 - Voice-chain ownership: each track has at most one voice chain that
\* has not been disposed.
OneLiveChain == \A t \in Tracks : chains[t] <= 1

\* C11 - The master step is in 0..31 in every reachable state, and every tick
\* (the transport is started, the conductor Playing) changes it to
\* (master step + 1) mod 32.
MasterStepAdvances ==
  /\ currentStepRef \in 0..(MasterCycle - 1)
  /\ [][/\ currentStepRef' \in 0..(MasterCycle - 1)
        /\ Tick => /\ isPlaying
                   /\ currentStepRef' = (currentStepRef + 1) % MasterCycle]_vars

\* the tick at master step 31 has wrapped the master step to 0
MasterStepWitness ==
  /\ isPlaying
  /\ currentStepRef = 0
  /\ \A t \in Tracks :
       runStep[t] = trackStep(MasterCycle - 1, tracksRef[t].steps)

\* C12 - For steps in 1..32 and pulses in 0..steps, the pattern generated
\* with rotation 0 has length steps and exactly pulses active entries.
PatternLengthCount ==
  \A t \in Tracks :
    LET a == generatorArgs(steps[t], pulses[t], rotations[t])
    IN (/\ a.steps \in MinStepsSlider..MaxStepsSlider
        /\ a.pulses \in 0..a.steps
        /\ a.rotations = 0)
       => /\ Len(tracksRef[t].pattern) = a.steps
          /\ ActiveCount(tracksRef[t].pattern) = a.pulses

\* a track of 12 steps and 9 pulses, where the accumulated index falls below
\* an integer, has had its pattern regenerated: 12 entries, 9 of them active
PatternLengthCountWitness ==
  \E t \in Tracks :
    /\ steps[t] = 12 /\ pulses[t] = 9 /\ rotations[t] = 0
    /\ chains[t] > 1 + RunsTo(12, 9, 0)
    /\ Len(tracksRef[t].pattern) = 12
    /\ ActiveCount(tracksRef[t].pattern) = 9

\* C13 - For steps in 1..32, pulses in 0..steps and r in 0..steps-1, the
\* pattern generated with rotation r is the pattern generated with rotation 0
\* rotated left by r: its entry i is entry (i + r) mod steps of the unrotated
\* pattern, and it has as many active entries.
RotationIsLeftShift ==
  \A t \in Tracks :
    LET a == generatorArgs(steps[t], pulses[t], rotations[t])
        unrotated == generatePattern(a.steps, a.pulses, 0)
        rotated == tracksRef[t].pattern
    IN (/\ a.steps \in MinStepsSlider..MaxStepsSlider
        /\ a.pulses \in 0..a.steps
        /\ a.rotations \in 0..(a.steps - 1))
       => /\ Len(rotated) = a.steps
          /\ \A i \in 0..(a.steps - 1) :
               rotated[i + 1] = unrotated[((i + a.rotations) % a.steps) + 1]
          /\ ActiveCount(rotated) = ActiveCount(unrotated)

\* a track of 16 steps and 4 pulses rotated by 1 has had its pattern
\* regenerated: the pulses of steps 0, 4, 8, 12 stand on 15, 3, 7, 11
RotationWitness ==
  \E t \in Tracks :
    /\ steps[t] = 16 /\ pulses[t] = 4 /\ rotations[t] = 1
    /\ chains[t] > 1 + RunsTo(16, 4, 1)
    /\ {k \in 0..15 : tracksRef[t].pattern[k + 1]} = {3, 7, 11, 15}

\* C14 - With rotation 0 the generated pattern is active exactly at the
\* indices floor(i * steps / pulses) mod steps, i in 0..pulses-1, the quotient
\* taken in the reals (all-false for pulses = 0, all-true for pulses = steps).
ExactSpread ==
  \A t \in Tracks :
    LET a == generatorArgs(steps[t], pulses[t], rotations[t])
    IN (/\ a.steps \in MinStepsSlider..MaxStepsSlider
        /\ a.pulses \in 0..a.steps
        /\ a.rotations = 0)
       => {k \in 0..(a.steps - 1) : tracksRef[t].pattern[k + 1]}
            = {((i * a.steps) \div a.pulses) % a.steps :
                 i \in 0..(a.pulses - 1)}

\* C15 - For every track length n in 1..32 the track step
\* floor(masterStep / 32 * n) mod n takes every value in 0..n-1 as the master
\* step ranges over 0..31.
EveryStepVisited ==
  \A t \in Tracks :
    LET n == tracksRef[t].steps
    IN n \in MinStepsSlider..MaxStepsSlider
       => {trackStep(m, n) : m \in 0..(MasterCycle - 1)} = 0..(n - 1)

\* 32 ticks have run over a track of 31 steps and the tick at master step 31
\* stood on its last step
EveryStepVisitedWitness ==
  /\ ticksSeen = MasterCycle
  /\ currentStepRef = 0
  /\ \E t \in Tracks : tracksRef[t].steps = 31 /\ runStep[t] = 30

\* C16 - For every track length n in 1..32 the track step never decreases
\* as the master step goes from 0 to 31 and grows by at most 1 from one
\* master step to the next; it drops only at the wrap from 31 to 0.  The
\* same holds of the track steps two consecutive ticks compute.
StepMonotone ==
  /\ [](\A t \in Tracks :
          LET n == tracksRef[t].steps
          IN n \in MinStepsSlider..MaxStepsSlider
             => \A m \in 0..(MasterCycle - 2) :
                  trackStep(m + 1, n) - trackStep(m, n) \in {0, 1})
  /\ [][Tick => \A t \in Tracks :
                  runStep[t] # None
                  => \/ StepOf(t) - runStep[t] \in {0, 1}
                     \/ currentStepRef = 0 /\ StepOf(t) = 0]_vars

\* a track of 3 steps has been taken from its last step back to step 0 by
\* the tick that follows a whole cycle
StepMonotoneWitness ==
  /\ ticksSeen = MasterCycle
  /\ currentStepRef = 1
  /\ \E t \in Tracks : tracksRef[t].steps = 3 /\ runStep[t] = 0

\* C17 - Per-tick decision: a tick schedules a note for a track (one, never
\* more) if and only if the pattern bit of its track step is active and the
\* track step differs from the track's last played step; the last played
\* step becomes the track step if and only if a note was scheduled, and is
\* unchanged otherwise, in particular whenever the bit is inactive.
TickDecision ==
  [][Tick => \A t \in Tracks :
               LET emitted == t \in fired'
                   active == tracksRef[t].pattern[StepOf(t) + 1]
               IN /\ emitted <=> (active /\ StepOf(t) # lastPlayedStepRef[t])
                  /\ emitted => lastPlayedStepRef'[t] = StepOf(t)
                  /\ ~emitted => lastPlayedStepRef'[t] = lastPlayedStepRef[t]
                  /\ ~active => lastPlayedStepRef'[t] = lastPlayedStepRef[t]
          ]_vars

\* one tick scheduled a note for a track and remembered its step, and found
\* another track on an inactive step and left the step it remembers alone
TickDecisionWitness ==
  \E t, u \in Tracks :
    /\ t \in fired
    /\ lastPlayedStepRef[t] = runStep[t]
    /\ u \notin fired
    /\ runStep[u] # None
    /\ ~tracksRef[u].pattern[runStep[u] + 1]
    /\ lastPlayedStepRef[u] # None
    /\ lastPlayedStepRef[u] # runStep[u]

\* C18 - With an unchanged configuration and continuous Playing, a track with
\* steps <= 32 and at least two active pattern steps has exactly `pulses`
\* notes scheduled during any 32 consecutive ticks: one for each active step,
\* none missed and none twice.
CycleFires ==
  \A t \in Tracks :
    LET track == tracksRef[t]
        activeSteps == {k \in 0..(track.steps - 1) : track.pattern[k + 1]}
    IN (/\ ticksSeen = MasterCycle
        /\ track.steps <= MasterCycle
        /\ Cardinality(activeSteps) >= 2)
       => /\ Cardinality(firedAt[t]) = track.pulses
          /\ {trackStep(m, track.steps) : m \in firedAt[t]} = activeSteps

\* 32 ticks that do not start at master step 0 have scheduled 9 notes for a
\* track of 12 steps and 9 pulses
CycleFiresWitness ==
  /\ isPlaying
  /\ ticksSeen = MasterCycle
  /\ currentStepRef = 5
  /\ \E t \in Tracks :
       /\ tracksRef[t].steps = 12
       /\ tracksRef[t].pulses = 9
       /\ Cardinality(firedAt[t]) = 9

\* C19 - After any sequence of bpm and note-duration changes, each of which
\* clears the repeating event and schedules a new one, exactly one callback
\* is registered with the transport, so a subdivision runs the callback once:
\* the master step advances by one and a track fires at most once.
OneCallback == repeatEvents = 1

\* the tick effect has re-run twice and the conductor is Playing in the
\* middle of a cycle
OneCallbackWitness ==
  /\ tempoChanges >= 2
  /\ isPlaying
  /\ currentStepRef > 0
  /\ repeatEvents = 1

\* C20 - The play-state flags encode one of Stopped / Playing / Paused and
\* agree with the transport: isPlaying and isPaused are never both true,
\* isPlaying holds exactly when the transport is started, and Paused is
\* entered only by Pause from Playing.
PlayStateFlags ==
  /\ [](/\ ~(isPlaying /\ isPaused)
        /\ isPlaying <=> transportState = "started")
  /\ [][/\ (isPaused' /\ ~isPaused) => (isPlaying /\ pauseSequencer)
        /\ pauseSequencer => (isPlaying /\ ~isPaused)]_vars

\* the conductor is Playing again after a Pause, before the next tick
PlayStateWitness ==
  /\ isPlaying
  /\ ~isPaused
  /\ transportState = "started"
  /\ pauseStep # None

====
